---- MODULE Spec2Model ----
(***************************************************************************)
(* generate.py: fetch four JSON documents, reshape them, and substitute    *)
(* the data block of index.html.                                           *)
(*                                                                         *)
(* Text is modelled as a sequence of tokens.  A token is one character,    *)
(* except that each fixed piece of text the program searches for or emits  *)
(* verbatim (the four "const NAME=" introducers, the STATIC TEAMS comment  *)
(* line, the "// -- STATE" marker) is one token; the characters that data  *)
(* strings are drawn from cannot spell any of them.                        *)
(*                                                                         *)
(* A JSON value (what json.loads returns, what json.dumps is given) is a   *)
(* tagged record: JStr, JInt, JBool, JList, JObj or JNull.  A dict is a JObj: *)
(* an insertion-ordered sequence of key/value entries.                     *)
(***************************************************************************)
EXTENDS Integers, Sequences, FiniteSets, TLC

VARIABLES
    index_html,     \* the text of index.html on disk
    pc,             \* position of main() in its body
    mini_raw,       \* main: the four fetched documents
    pre_raw,
    mini_t,
    pre_t,
    html,           \* main: the text read from index.html
    existing_pt,    \* main: extract_existing_pt(html)
    mini_matches,   \* main: the four data products
    pre_matches,
    mt,
    pt,
    new_data,       \* main: the assembled block
    new_html,       \* main: the result of re.sub
    exit_status,    \* -1 while running, else the process's exit status
    opened_w,       \* this run opened index.html for writing
    fetched,        \* history: the number of fetches of this run that returned
    html0,          \* history: index.html as it was when this run started
    pt0,            \* history: the PT constant of index.html before the first run
    kept            \* history: the team ids that every tournament-87 response so far
                    \* listed in its teams list, all of them without a groups structure

vars == <<index_html, pc, mini_raw, pre_raw, mini_t, pre_t, html, existing_pt,
          mini_matches, pre_matches, mt, pt, new_data, new_html, exit_status,
          opened_w, fetched, html0, pt0, kept>>

-----------------------------------------------------------------------------
(* Characters *)

LF  == "\n"
TAB == "\t"
CR  == "\r"
BS  == "<U+0008>"
FF  == "<U+000C>"
BEL == "<U+0007>"
VT  == "<U+000B>"
SOH == "<U+0001>"
QUOTE == "\""
BACKSLASH == "\\"

Digits == <<"0", "1", "2", "3", "4", "5", "6", "7", "8", "9">>
DigitSet == {Digits[i] : i \in 1..10}

AsciiLetters ==
    {"a", "b", "c", "d", "e", "f", "g", "h", "i", "j", "k", "l", "m",
     "n", "o", "p", "q", "r", "s", "t", "u", "v", "w", "x", "y", "z",
     "A", "B", "C", "D", "E", "F", "G", "H", "I", "J", "K", "L", "M",
     "N", "O", "P", "Q", "R", "S", "T", "U", "V", "W", "X", "Y", "Z"}

\* characters below U+0020
ControlChars == {LF, TAB, CR, BS, FF, BEL, VT, SOH}

\* str.strip() and JSON whitespace
Whitespace == {" ", LF, TAB, CR}

-----------------------------------------------------------------------------
(* JSON values *)

JStr(s)  == [t |-> "str", s |-> s]
JInt(i)  == [t |-> "int", i |-> i]
JList(l) == [t |-> "list", l |-> l]
JObj(kv) == [t |-> "obj", kv |-> kv]
JNull    == [t |-> "null"]
JBool(b) == [t |-> "bool", b |-> b]
\* an exception propagating out of a function
Raise   == [t |-> "raise"]

Entry(k, v) == [k |-> k, v |-> v]

IsRaise(v) == v.t = "raise"

\* Python truthiness
Truthy(v) ==
    CASE v.t = "null" -> FALSE
      [] v.t = "bool" -> v.b
      [] v.t = "int"  -> v.i # 0
      [] v.t = "str"  -> v.s # <<>>
      [] v.t = "list" -> v.l # <<>>
      [] v.t = "obj"  -> v.kv # <<>>

\* key in d
HasKey(d, k) == \E i \in 1..Len(d.kv) : d.kv[i].k = k

\* d[k], for a key that is present
Item(d, k) == d.kv[CHOOSE i \in 1..Len(d.kv) : d.kv[i].k = k].v

\* d.get(k, default)
Get(d, k, default) == IF HasKey(d, k) THEN Item(d, k) ELSE default

\* d[k] = v
SetItem(d, k, v) ==
    IF HasKey(d, k)
    THEN JObj([i \in 1..Len(d.kv) |-> IF d.kv[i].k = k THEN Entry(k, v) ELSE d.kv[i]])
    ELSE JObj(Append(d.kv, Entry(k, v)))

\* a or b
Or(a, b) == IF Truthy(a) THEN a ELSE b

-----------------------------------------------------------------------------
(* str(int) and json.dumps(value, ensure_ascii=False, separators=(',', ':')) *)

RECURSIVE NatDigits(_)
NatDigits(n) ==
    IF n < 10 THEN <<Digits[n + 1]>>
    ELSE Append(NatDigits(n \div 10), Digits[(n % 10) + 1])

\* str(i)
IntStr(i) == IF i < 0 THEN <<"-">> \o NatDigits(-i) ELSE NatDigits(i)

\* how json.dumps writes one character of a string
EscapeChar(c) ==
    CASE c = QUOTE     -> <<BACKSLASH, QUOTE>>
      [] c = BACKSLASH -> <<BACKSLASH, BACKSLASH>>
      [] c = LF        -> <<BACKSLASH, "n">>
      [] c = CR        -> <<BACKSLASH, "r">>
      [] c = TAB       -> <<BACKSLASH, "t">>
      [] c = BS        -> <<BACKSLASH, "b">>
      [] c = FF        -> <<BACKSLASH, "f">>
      [] c = SOH       -> <<BACKSLASH, "u", "0", "0", "0", "1">>
      [] c = BEL       -> <<BACKSLASH, "u", "0", "0", "0", "7">>
      [] c = VT        -> <<BACKSLASH, "u", "0", "0", "0", "b">>
      [] OTHER         -> <<c>>

RECURSIVE EscapeStr(_)
EscapeStr(s) ==
    IF s = <<>> THEN <<>> ELSE EscapeChar(Head(s)) \o EscapeStr(Tail(s))

DumpsStr(s) == <<QUOTE>> \o EscapeStr(s) \o <<QUOTE>>

\* a dict key: a str as it is, an int as its decimal digits
DumpsKey(k) ==
    CASE k.t = "int"  -> DumpsStr(IntStr(k.i))
      [] k.t = "str"  -> DumpsStr(k.s)
      [] k.t = "null" -> DumpsStr(<<"n", "u", "l", "l">>)

RECURSIVE Dumps(_), DumpsItems(_), DumpsEntries(_)
Dumps(v) ==
    CASE v.t = "null" -> <<"n", "u", "l", "l">>
      [] v.t = "bool" -> IF v.b THEN <<"t", "r", "u", "e">> ELSE <<"f", "a", "l", "s", "e">>
      [] v.t = "int"  -> IntStr(v.i)
      [] v.t = "str"  -> DumpsStr(v.s)
      [] v.t = "list" -> <<"[">> \o DumpsItems(v.l) \o <<"]">>
      [] v.t = "obj"  -> <<"{">> \o DumpsEntries(v.kv) \o <<"}">>

DumpsItems(l) ==
    IF l = <<>> THEN <<>>
    ELSE Dumps(Head(l)) \o (IF Len(l) > 1 THEN <<",">> ELSE <<>>) \o DumpsItems(Tail(l))

DumpsEntries(kv) ==
    IF kv = <<>> THEN <<>>
    ELSE DumpsKey(Head(kv).k) \o <<":">> \o Dumps(Head(kv).v)
         \o (IF Len(kv) > 1 THEN <<",">> ELSE <<>>) \o DumpsEntries(Tail(kv))

\* f"const {name}={json.dumps(...)};"
js_const(name, value) == <<"const " \o name \o "=">> \o Dumps(value) \o <<";">>

-----------------------------------------------------------------------------
(* Keys of the API's objects and of the compact format *)

K_name          == JStr(<<"n", "a", "m", "e">>)
K_idGroup       == JStr(<<"i", "d", "G", "r", "o", "u", "p">>)
K_matches       == JStr(<<"m", "a", "t", "c", "h", "e", "s">>)
K_status        == JStr(<<"s", "t", "a", "t", "u", "s">>)
K_idHomeTeam    == JStr(<<"i", "d", "H", "o", "m", "e", "T", "e", "a", "m">>)
K_idVisitorTeam == JStr(<<"i", "d", "V", "i", "s", "i", "t", "o", "r", "T", "e", "a", "m">>)
K_startTime     == JStr(<<"s", "t", "a", "r", "t", "T", "i", "m", "e">>)
K_field         == JStr(<<"f", "i", "e", "l", "d">>)
K_teams         == JStr(<<"t", "e", "a", "m", "s">>)
K_id            == JStr(<<"i", "d">>)
K_groups        == JStr(<<"g", "r", "o", "u", "p", "s">>)
K_roundGroups   == JStr(<<"r", "o", "u", "n", "d", "G", "r", "o", "u", "p", "s">>)
K_groupsRounds  == JStr(<<"g", "r", "o", "u", "p", "s", "R", "o", "u", "n", "d", "s">>)
K_n == JStr(<<"n">>)
K_g == JStr(<<"g">>)
K_m == JStr(<<"m">>)
K_h == JStr(<<"h">>)
K_v == JStr(<<"v">>)
K_d == JStr(<<"d">>)
K_s == JStr(<<"s">>)
K_f == JStr(<<"f">>)

EmptyStr  == JStr(<<>>)
EmptyList == JList(<<>>)
EmptyDict == JObj(<<>>)
LetterA   == JStr(<<"A">>)

-----------------------------------------------------------------------------
(* Python on JSON values *)

\* for x in v: whether v can be iterated (else TypeError), and the elements
Iterable(v) == v.t \in {"list", "str", "obj"}

Iter(v) ==
    CASE v.t = "list" -> v.l
      [] v.t = "str"  -> [i \in 1..Len(v.s) |-> JStr(<<v.s[i]>>)]
      [] v.t = "obj"  -> [i \in 1..Len(v.kv) |-> v.kv[i].k]

\* v has a .get method
IsDict(v) == v.t = "obj"

\* v can be a dict key
Hashable(v) == v.t \in {"null", "int", "str"}

\* v[k]: KeyError when k is missing, TypeError or KeyError when v is no dict
Subscript(v, k) == IF IsDict(v) /\ HasKey(v, k) THEN Item(v, k) ELSE Raise

\* str(v)
StrOf(v) ==
    CASE v.t = "int"  -> JStr(IntStr(v.i))
      [] v.t = "str"  -> v
      [] v.t = "null" -> JStr(<<"N", "o", "n", "e">>)

StartsWith(s, p) == Len(s) >= Len(p) /\ SubSeq(s, 1, Len(p)) = p

Min(a, b) == IF a < b THEN a ELSE b

\* s[:n]
Slice(s, n) == SubSeq(s, 1, Min(n, Len(s)))

RECURSIVE LStrip(_)
LStrip(s) == IF s # <<>> /\ Head(s) \in Whitespace THEN LStrip(Tail(s)) ELSE s

RECURSIVE RStrip(_)
RStrip(s) ==
    IF s # <<>> /\ s[Len(s)] \in Whitespace THEN RStrip(SubSeq(s, 1, Len(s) - 1)) ELSE s

\* s.strip()
Strip(s) == RStrip(LStrip(s))

LowerCase == <<"a", "b", "c", "d", "e", "f", "g", "h", "i", "j", "k", "l", "m",
               "n", "o", "p", "q", "r", "s", "t", "u", "v", "w", "x", "y", "z">>
UpperCase == <<"A", "B", "C", "D", "E", "F", "G", "H", "I", "J", "K", "L", "M",
               "N", "O", "P", "Q", "R", "S", "T", "U", "V", "W", "X", "Y", "Z">>

\* c.upper()
Upper(c) ==
    IF \E i \in 1..Len(LowerCase) : LowerCase[i] = c
    THEN UpperCase[CHOOSE i \in 1..Len(LowerCase) : LowerCase[i] = c]
    ELSE c

-----------------------------------------------------------------------------
(* fmt_date, transform_matches *)

DateLen == 16
NullDate0001 == <<"0", "0", "0", "1">>
NullDate1901 == <<"1", "9", "0", "1">>

\* fmt_date(s): a str, or Raise (AttributeError: s is truthy and has no startswith)
fmt_date(s) ==
    IF ~Truthy(s) THEN EmptyStr
    ELSE IF s.t # "str" THEN Raise
    ELSE IF StartsWith(s.s, NullDate0001) \/ StartsWith(s.s, NullDate1901) THEN EmptyStr
    ELSE JStr(Slice(s.s, DateLen))

DefaultStatus == 5
UnknownTeam == -1

\* transform_match with status read as m["status"]: KeyError when it is absent
transform_match_strict(m) ==
    IF ~IsDict(m) \/ ~HasKey(m, K_status) THEN Raise
    ELSE LET d     == fmt_date(Get(m, K_startTime, EmptyStr))
             field == Or(Get(m, K_field, JNull), EmptyDict)
         IN  IF IsRaise(d) \/ (Truthy(field) /\ ~IsDict(field)) THEN Raise
             ELSE JObj(<<Entry(K_h, Or(Get(m, K_idHomeTeam, JNull), JInt(UnknownTeam))),
                         Entry(K_v, Or(Get(m, K_idVisitorTeam, JNull), JInt(UnknownTeam))),
                         Entry(K_d, d), Entry(K_s, Item(m, K_status)),
                         Entry(K_f, IF Truthy(field)
                                    THEN Or(Get(field, K_name, JNull), EmptyStr)
                                    ELSE EmptyStr)>>)

\* the body of the inner loop for one match m: the compact match, or Raise
transform_match(m) ==
    IF ~IsDict(m) THEN Raise
    ELSE LET status == Get(m, K_status, JInt(DefaultStatus))
             home   == Or(Get(m, K_idHomeTeam, JNull), JInt(UnknownTeam))
             away   == Or(Get(m, K_idVisitorTeam, JNull), JInt(UnknownTeam))
             d      == fmt_date(Get(m, K_startTime, EmptyStr))
             field  == Or(Get(m, K_field, JNull), EmptyDict)
         IN  IF IsRaise(d) THEN Raise
             ELSE IF Truthy(field) /\ ~IsDict(field) THEN Raise
             ELSE LET f == IF Truthy(field) THEN Or(Get(field, K_name, JNull), EmptyStr)
                           ELSE EmptyStr
                  IN  JObj(<<Entry(K_h, home), Entry(K_v, away), Entry(K_d, d),
                             Entry(K_s, status), Entry(K_f, f)>>)

\* the inner loop: the list `matches` after iterating ms, or Raise
RECURSIVE transform_match_list(_, _)
transform_match_list(ms, acc) ==
    IF ms = <<>> THEN JList(acc)
    ELSE LET r == transform_match(Head(ms))
         IN  IF IsRaise(r) THEN Raise
             ELSE transform_match_list(Tail(ms), Append(acc, r))

\* the body of the outer loop for one jornada: the compact round, or Raise
transform_jornada(jornada) ==
    IF ~IsDict(jornada) THEN Raise
    ELSE LET name     == Get(jornada, K_name, EmptyStr)
             group_id == Get(jornada, K_idGroup, JInt(0))
             ms       == Get(jornada, K_matches, EmptyList)
         IN  IF ~Iterable(ms) THEN Raise
             ELSE LET matches == transform_match_list(Iter(ms), <<>>)
                  IN  IF IsRaise(matches) THEN Raise
                      ELSE JObj(<<Entry(K_n, name), Entry(K_g, group_id),
                                  Entry(K_m, matches)>>)

RECURSIVE transform_jornada_list(_, _)
transform_jornada_list(js, acc) ==
    IF js = <<>> THEN JList(acc)
    ELSE LET r == transform_jornada(Head(js))
         IN  IF IsRaise(r) THEN Raise
             ELSE transform_jornada_list(Tail(js), Append(acc, r))

\* transform_matches(jornadas_data): the compact list, or Raise
transform_matches(jornadas_data) ==
    IF ~Iterable(jornadas_data) THEN Raise
    ELSE transform_jornada_list(Iter(jornadas_data), <<>>)

-----------------------------------------------------------------------------
(* build_mt *)

\* the loop of build_mt over the teams still to visit: the dict, or Raise (KeyError)
RECURSIVE build_mt_loop(_, _)
build_mt_loop(teams, acc) ==
    IF teams = <<>> THEN acc
    ELSE LET team == Head(teams)
             name == Subscript(team, K_name)
             id   == Subscript(team, K_id)
         IN  IF IsRaise(name) \/ IsRaise(id) \/ ~Hashable(id) THEN Raise
             ELSE build_mt_loop(Tail(teams), SetItem(acc, id, name))

\* build_mt with a loop that skips a team record lacking "id" or "name"
RECURSIVE build_mt_skip_loop(_, _)
build_mt_skip_loop(teams, acc) ==
    IF teams = <<>> THEN acc
    ELSE LET team == Head(teams)
         IN  IF IsDict(team) /\ HasKey(team, K_id) /\ HasKey(team, K_name)
             THEN build_mt_skip_loop(Tail(teams), SetItem(acc, Item(team, K_id),
                                                          Item(team, K_name)))
             ELSE build_mt_skip_loop(Tail(teams), acc)

build_mt_skipping(tournament_data) ==
    build_mt_skip_loop(Iter(Get(tournament_data, K_teams, EmptyList)), EmptyDict)

\* build_mt(tournament_data): {teamId: name}, or Raise
build_mt(tournament_data) ==
    IF ~IsDict(tournament_data) THEN Raise
    ELSE LET teams == Get(tournament_data, K_teams, EmptyList)
         IN  IF ~Iterable(teams) THEN Raise
             ELSE build_mt_loop(Iter(teams), EmptyDict)

-----------------------------------------------------------------------------
(* build_pt *)

GroupLetters == {"A", "B", "C", "D"}

\* the group letter derived from a group's display name
group_letter(gname) ==
    LET stripped == Strip(gname)
        gletter  == IF stripped # <<>> THEN Upper(stripped[Len(stripped)]) ELSE "A"
    IN  IF gletter \notin GroupLetters THEN "A" ELSE gletter

PtEntry(name, g) == JObj(<<Entry(K_n, name), Entry(K_g, g)>>)

\* the inner loop of the groups branch: pt after the teams of one group, or Raise
RECURSIVE group_teams_loop(_, _, _)
group_teams_loop(teams, gletter, acc) ==
    IF teams = <<>> THEN acc
    ELSE LET team == Head(teams)
             name == Subscript(team, K_name)
             id   == Subscript(team, K_id)
         IN  IF IsRaise(name) \/ IsRaise(id) \/ ~Hashable(id) THEN Raise
             ELSE group_teams_loop(Tail(teams), gletter,
                                   SetItem(acc, id, PtEntry(name, JStr(<<gletter>>))))

\* the outer loop of the groups branch: pt after the groups, or Raise
RECURSIVE groups_loop(_, _)
groups_loop(groups, acc) ==
    IF groups = <<>> THEN acc
    ELSE LET group == Head(groups)
         IN  IF ~IsDict(group) THEN Raise
             ELSE LET gname == Get(group, K_name, EmptyStr)
                      teams == Get(group, K_teams, EmptyList)
                  IN  IF gname.t # "str" \/ ~Iterable(teams) THEN Raise
                      ELSE LET r == group_teams_loop(Iter(teams), group_letter(gname.s), acc)
                           IN  IF IsRaise(r) THEN Raise
                               ELSE groups_loop(Tail(groups), r)

\* the group letter the fallback gives team tid
fallback_group(tid, existing_pt_) ==
    IF ~Truthy(existing_pt_) THEN LetterA
    ELSE LET entry == Or(Get(existing_pt_, tid, JNull),
                         Get(existing_pt_, StrOf(tid), JNull))
         IN  IF ~Truthy(entry) THEN LetterA
             ELSE IF IsDict(entry) THEN Get(entry, K_g, LetterA)
             ELSE LetterA

\* the loop of the fallback branch: pt after the flat teams list, or Raise
RECURSIVE fallback_loop(_, _, _)
fallback_loop(teams, existing_pt_, acc) ==
    IF teams = <<>> THEN acc
    ELSE LET team == Head(teams)
             tid  == Subscript(team, K_id)
         IN  IF IsRaise(tid) \/ ~Hashable(tid) THEN Raise
             ELSE LET g    == fallback_group(tid, existing_pt_)
                      name == Subscript(team, K_name)
                  IN  IF IsRaise(name) THEN Raise
                      ELSE fallback_loop(Tail(teams), existing_pt_,
                                         SetItem(acc, tid, PtEntry(name, g)))

\* the groups structure build_pt uses: the first truthy of the three fields, or []
groups_of(tournament_data) ==
    Or(Or(Or(Get(tournament_data, K_groups, JNull),
             Get(tournament_data, K_roundGroups, JNull)),
          Get(tournament_data, K_groupsRounds, JNull)),
       EmptyList)

\* pt after the groups branch (lines 81-89), or Raise
groups_branch(tournament_data) ==
    LET groups == groups_of(tournament_data)
    IN  IF ~Iterable(groups) THEN Raise
        ELSE groups_loop(Iter(groups), EmptyDict)

\* the fallback branch without its guard "if not pt": the flat list is merged in
fallback_branch_always(tournament_data, existing_pt_, pt_) ==
    LET teams == Get(tournament_data, K_teams, EmptyList)
    IN  IF ~Iterable(teams) THEN Raise
        ELSE fallback_loop(Iter(teams), existing_pt_, pt_)

\* pt after the fallback branch (lines 91-100), or Raise
fallback_branch(tournament_data, existing_pt_, pt_) ==
    IF Truthy(pt_) THEN pt_
    ELSE LET teams == Get(tournament_data, K_teams, EmptyList)
         IN  IF ~Iterable(teams) THEN Raise
             ELSE fallback_loop(Iter(teams), existing_pt_, pt_)

\* build_pt(tournament_data, existing_pt): {teamId: {n, g}}, or Raise
build_pt(tournament_data, existing_pt_) ==
    IF ~IsDict(tournament_data) THEN Raise
    ELSE LET after_groups == groups_branch(tournament_data)
         IN  IF IsRaise(after_groups) THEN Raise
             ELSE fallback_branch(tournament_data, existing_pt_, after_groups)

-----------------------------------------------------------------------------
(* json.loads, on the JSON this program writes and reads back: objects,    *)
(* arrays, strings, integers, true, false, null                            *)

ParseFail == [ok |-> FALSE]
ParseOk(v, i) == [ok |-> TRUE, v |-> v, i |-> i]

At(s, i) == IF i <= Len(s) THEN s[i] ELSE "<EOF>"

RECURSIVE SkipWs(_, _)
SkipWs(s, i) == IF At(s, i) \in Whitespace THEN SkipWs(s, i + 1) ELSE i

\* the character a \uXXXX escape names, for the code points of the model's alphabet
UnicodeEscapes ==
    {<<<<"0", "0", "0", "1">>, SOH>>, <<<<"0", "0", "0", "7">>, BEL>>,
     <<<<"0", "0", "0", "8">>, BS>>,  <<<<"0", "0", "0", "9">>, TAB>>,
     <<<<"0", "0", "0", "a">>, LF>>,  <<<<"0", "0", "0", "b">>, VT>>,
     <<<<"0", "0", "0", "c">>, FF>>,  <<<<"0", "0", "0", "d">>, CR>>}

\* the character of a two-character escape inside a JSON string
SimpleEscapes ==
    {<<QUOTE, QUOTE>>, <<BACKSLASH, BACKSLASH>>, <<"/", "/">>, <<"b", BS>>,
     <<"f", FF>>, <<"n", LF>>, <<"r", CR>>, <<"t", TAB>>}

\* a string whose opening quote is before position i; acc holds its characters so far
RECURSIVE ParseStringFrom(_, _, _)
ParseStringFrom(s, i, acc) ==
    LET c == At(s, i)
    IN  CASE i > Len(s)        -> ParseFail
          [] c = QUOTE         -> ParseOk(JStr(acc), i + 1)
          [] c \in ControlChars -> ParseFail
          [] c = BACKSLASH     ->
               LET e == At(s, i + 1)
               IN  IF i + 1 > Len(s) THEN ParseFail
                   ELSE IF \E p \in SimpleEscapes : p[1] = e
                   THEN ParseStringFrom(s, i + 2,
                            Append(acc, (CHOOSE p \in SimpleEscapes : p[1] = e)[2]))
                   ELSE IF e = "u" /\ i + 5 <= Len(s)
                           /\ \E p \in UnicodeEscapes : p[1] = SubSeq(s, i + 2, i + 5)
                   THEN ParseStringFrom(s, i + 6,
                            Append(acc, (CHOOSE p \in UnicodeEscapes :
                                            p[1] = SubSeq(s, i + 2, i + 5))[2]))
                   ELSE ParseFail
          [] OTHER             -> ParseStringFrom(s, i + 1, Append(acc, c))

RECURSIVE DigitsEnd(_, _)
DigitsEnd(s, i) == IF At(s, i) \in DigitSet THEN DigitsEnd(s, i + 1) ELSE i

DigitValue(c) == (CHOOSE k \in 1..10 : Digits[k] = c) - 1

RECURSIVE NatValue(_)
NatValue(ds) ==
    IF ds = <<>> THEN 0
    ELSE 10 * NatValue(SubSeq(ds, 1, Len(ds) - 1)) + DigitValue(ds[Len(ds)])

\* -?(0|[1-9][0-9]*) at position i
ParseInt(s, i) ==
    LET neg == At(s, i) = "-"
        b   == IF neg THEN i + 1 ELSE i
        e   == IF At(s, b) = "0" THEN b + 1 ELSE DigitsEnd(s, b)
    IN  IF e = b THEN ParseFail
        ELSE ParseOk(JInt((IF neg THEN -1 ELSE 1) * NatValue(SubSeq(s, b, e - 1))), e)

Literal(s, i, word) == i + Len(word) - 1 <= Len(s) /\ SubSeq(s, i, i + Len(word) - 1) = word

RECURSIVE ParseValue(_, _), ParseMembers(_, _, _), ParseElements(_, _, _)

\* scan_once: the value that starts at position i
ParseValue(s, i) ==
    LET c == At(s, i)
    IN  CASE i > Len(s) -> ParseFail
          [] c = QUOTE -> ParseStringFrom(s, i + 1, <<>>)
          [] c = "{"   ->
               LET j == SkipWs(s, i + 1)
               IN  IF At(s, j) = "}" THEN ParseOk(EmptyDict, j + 1)
                   ELSE ParseMembers(s, j, EmptyDict)
          [] c = "["   ->
               LET j == SkipWs(s, i + 1)
               IN  IF At(s, j) = "]" THEN ParseOk(EmptyList, j + 1)
                   ELSE ParseElements(s, j, <<>>)
          [] c = "-" \/ c \in DigitSet -> ParseInt(s, i)
          [] Literal(s, i, <<"n", "u", "l", "l">>) -> ParseOk(JNull, i + 4)
          [] Literal(s, i, <<"t", "r", "u", "e">>) -> ParseOk(JBool(TRUE), i + 4)
          [] Literal(s, i, <<"f", "a", "l", "s", "e">>) -> ParseOk(JBool(FALSE), i + 5)
          [] OTHER -> ParseFail

\* the members of an object, the next key expected at position i
ParseMembers(s, i, acc) ==
    IF At(s, i) # QUOTE THEN ParseFail
    ELSE LET key == ParseStringFrom(s, i + 1, <<>>)
         IN  IF ~key.ok THEN ParseFail
             ELSE LET c == SkipWs(s, key.i)
                  IN  IF At(s, c) # ":" THEN ParseFail
                      ELSE LET val == ParseValue(s, SkipWs(s, c + 1))
                           IN  IF ~val.ok THEN ParseFail
                               ELSE LET e    == SkipWs(s, val.i)
                                        acc2 == SetItem(acc, key.v, val.v)
                                    IN  CASE At(s, e) = "}" -> ParseOk(acc2, e + 1)
                                          [] At(s, e) = "," ->
                                               ParseMembers(s, SkipWs(s, e + 1), acc2)
                                          [] OTHER -> ParseFail

\* the elements of an array, the next value expected at position i
ParseElements(s, i, acc) ==
    LET val == ParseValue(s, i)
    IN  IF ~val.ok THEN ParseFail
        ELSE LET e == SkipWs(s, val.i)
             IN  CASE At(s, e) = "]" -> ParseOk(JList(Append(acc, val.v)), e + 1)
                   [] At(s, e) = "," -> ParseElements(s, SkipWs(s, e + 1), Append(acc, val.v))
                   [] OTHER -> ParseFail

\* json.loads(s): ParseOk with the value, or ParseFail (JSONDecodeError)
Loads(s) ==
    LET r == ParseValue(s, SkipWs(s, 1))
    IN  IF r.ok /\ SkipWs(s, r.i) > Len(s) THEN r ELSE ParseFail

-----------------------------------------------------------------------------
(* The fixed text of the document and of the block *)

IntroMini   == "const MINI_MATCHES="
IntroPT     == "const PT="
\* the box-drawing dashes of the source are written as hyphens here
StaticTeams == "// -- STATIC TEAMS ------------------------------------------"
Marker      == "// -- STATE"

\* the first position >= from at which text s holds token tok, or 0
Find(s, tok, from) ==
    LET hits == {i \in from..Len(s) : s[i] = tok}
    IN  IF hits = {} THEN 0 ELSE CHOOSE i \in hits : \A j \in hits : i <= j

\* "\n".join(parts)
RECURSIVE Join(_)
Join(parts) ==
    IF parts = <<>> THEN <<>>
    ELSE IF Len(parts) = 1 THEN Head(parts)
    ELSE Head(parts) \o <<LF>> \o Join(Tail(parts))

-----------------------------------------------------------------------------
(* extract_existing_pt *)

\* the end of group 1 of  const PT=(\{.*?\});  when the match starts at position
\* p: the first k >= from with s[k] = "}" and s[k + 1] = ";", or 0
RECURSIVE PtClose(_, _)
PtClose(s, from) ==
    LET k == Find(s, "}", from)
    IN  IF k = 0 THEN 0
        ELSE IF At(s, k + 1) = ";" THEN k
        ELSE PtClose(s, k + 1)

\* re.search(r'const PT=(\{.*?\});', html, re.DOTALL): group 1 of the leftmost
\* match, searching from position from; found = FALSE when there is none
RECURSIVE SearchPt(_, _)
SearchPt(s, from) ==
    LET p == Find(s, IntroPT, from)
    IN  IF p = 0 THEN [found |-> FALSE]
        ELSE LET k == IF At(s, p + 1) = "{" THEN PtClose(s, p + 2) ELSE 0
             IN  IF k # 0 THEN [found |-> TRUE, group |-> SubSeq(s, p + 1, k)]
                 ELSE SearchPt(s, p + 1)

\* extract_existing_pt(html)
extract_existing_pt(html_) ==
    LET m == SearchPt(html_, 1)
    IN  IF m.found
        THEN LET r == Loads(m.group) IN IF r.ok THEN r.v ELSE EmptyDict
        ELSE EmptyDict

-----------------------------------------------------------------------------
(* re.sub(r'const MINI_MATCHES=.*?(?=// -- STATE)', repl, html, flags=re.DOTALL) *)

\* the character a backslash escape of a replacement template stands for
TemplateEscapes ==
    {<<BACKSLASH, BACKSLASH>>, <<"n", LF>>, <<"r", CR>>, <<"t", TAB>>,
     <<"b", BS>>, <<"f", FF>>, <<"a", BEL>>, <<"v", VT>>}

\* The replacement string is a template: re expands its backslash escapes
\* before substituting.  ok = FALSE is re.error: an escape of an ASCII letter
\* that is no known escape, a backslash ending the template, or a reference to
\* a group (\g, \1 .. \9; the pattern has no group).  Any other escaped
\* character stays as it is, with its backslash.
RECURSIVE expand_template(_)
expand_template(repl) ==
    LET b == Find(repl, BACKSLASH, 1)
    IN  IF b = 0 THEN [ok |-> TRUE, text |-> repl]
        ELSE IF b = Len(repl) THEN [ok |-> FALSE]
        ELSE LET c    == repl[b + 1]
                 rest == expand_template(SubSeq(repl, b + 2, Len(repl)))
                 this == IF \E p \in TemplateEscapes : p[1] = c
                         THEN <<(CHOOSE p \in TemplateEscapes : p[1] = c)[2]>>
                         ELSE <<BACKSLASH, c>>
             IN  IF (c \in AsciiLetters \/ c \in DigitSet)
                    /\ ~\E p \in TemplateEscapes : p[1] = c
                 THEN [ok |-> FALSE]
                 ELSE IF ~rest.ok THEN [ok |-> FALSE]
                 ELSE [ok |-> TRUE, text |-> SubSeq(repl, 1, b - 1) \o this \o rest.text]

\* every non-overlapping match, left to right from position pos, replaced by
\* text: a match starts at an introducer that has a marker after it and ends
\* just before the first such marker, which is left for the rest of the scan
RECURSIVE sub_from(_, _, _)
sub_from(s, text, pos) ==
    LET i == Find(s, IntroMini, pos)
        j == IF i = 0 THEN 0 ELSE Find(s, Marker, i + 1)
    IN  IF j = 0 THEN SubSeq(s, pos, Len(s))
        ELSE SubSeq(s, pos, i - 1) \o text \o sub_from(s, text, j)

\* re.sub: ok = FALSE when the template is in error, else the new text
re_sub(repl, html_) ==
    LET t == expand_template(repl)
    IN  IF t.ok THEN [ok |-> TRUE, text |-> sub_from(html_, t.text, 1)]
        ELSE [ok |-> FALSE]

\* lines 144-152: the assembled block
assemble(mini_matches_, pre_matches_, mt_, pt_) ==
    Join(<<js_const("MINI_MATCHES", mini_matches_),
           js_const("PRE_MATCHES", pre_matches_),
           <<>>,
           <<StaticTeams>>,
           js_const("MT", mt_),
           js_const("PT", pt_),
           <<>>>>)

-----------------------------------------------------------------------------
(* The API's responses and the documents the runs start from *)

NamePlain     == <<"X">>
NameQuote     == <<"a", QUOTE>>
NameBackslash == <<BACKSLASH, "x">>
NameClose     == <<"}", ";">>
NameControl   == <<SOH>>
TeamNames == {NamePlain, NameQuote, NameBackslash, NameClose, NameControl}

Team(id, name) == JObj(<<Entry(K_id, JInt(id)), Entry(K_name, JStr(name))>>)
TeamNoName(id) == JObj(<<Entry(K_id, JInt(id))>>)
TeamNoId(name) == JObj(<<Entry(K_name, JStr(name))>>)

Teams(l) == Entry(K_teams, JList(l))
Group(gname, l) == JObj(<<Entry(K_name, JStr(gname)), Teams(l)>>)
GrupoC == <<"G", "r", "u", "p", "o", " ", "C">>

StartSample == <<"2", "0", "2", "4", "-", "0", "3", "-", "1", "0", "T",
                 "1", "0", ":", "0", "0", ":", "0", "0">>

FullMatch ==
    JObj(<<Entry(K_idHomeTeam, JInt(1)), Entry(K_idVisitorTeam, JInt(2)),
           Entry(K_startTime, JStr(StartSample)), Entry(K_status, JInt(1)),
           Entry(K_field, JObj(<<Entry(K_name, JStr(<<"N">>))>>))>>)

FullRound ==
    JObj(<<Entry(K_name, JStr(<<"J", "1">>)), Entry(K_idGroup, JInt(3)),
           Entry(K_matches, JList(<<FullMatch, EmptyDict>>))>>)

\* /matches/fortournament/<id>
Fixtures == {EmptyList, JList(<<FullRound>>)}

\* /tournaments/85
Tournaments85 ==
    {JObj(<<Teams(<<>>)>>),
     JObj(<<Teams(<<Team(1, <<"M">>)>>)>>),
     JObj(<<Teams(<<Team(1, <<"M">>), TeamNoName(2)>>)>>)}

\* /tournaments/87
Tournaments87 ==
    {JObj(<<Teams(<<>>)>>)}
    \cup {JObj(<<Teams(<<Team(5, n)>>)>>) : n \in TeamNames}
    \cup {JObj(<<Teams(<<Team(5, NamePlain), Team(6, <<"Y">>)>>)>>),
          JObj(<<Teams(<<TeamNoName(5)>>)>>),
          JObj(<<Entry(K_groups, JList(<<Group(GrupoC, <<Team(5, NamePlain)>>)>>)),
                 Teams(<<TeamNoName(6)>>)>>),
          JObj(<<Entry(K_groups, JList(<<Group(GrupoC, <<TeamNoId(NamePlain)>>)>>)),
                 Teams(<<>>)>>),
          JObj(<<Entry(K_roundGroups, JList(<<Group(GrupoC, <<>>)>>)),
                 Teams(<<Team(5, NamePlain)>>)>>),
          JObj(<<Entry(K_roundGroups, JList(<<Group(GrupoC, <<>>)>>)),
                 Teams(<<TeamNoId(NamePlain)>>)>>)}

\* the team ids of the model
TeamIds == {5, 6}

\* a data block as a run leaves it: the assembled block and the newline after it
BlockOf(pt_) == assemble(EmptyList, EmptyList, EmptyDict, pt_) \o <<LF>>

CuratedPt == JObj(<<Entry(JInt(5), PtEntry(JStr(NamePlain), JStr(<<"B">>)))>>)

\* index.html with team 5 curated into group B
DocCurated == <<"<">> \o BlockOf(CuratedPt) \o <<Marker, ">">>
\* index.html as a run with empty responses leaves it
DocEmpty == <<"<">> \o BlockOf(EmptyDict) \o <<Marker, ">">>
\* a second introducer and marker after the data block
DocTwoSpans == DocCurated \o <<IntroMini, "o", Marker, "!">>
\* documents without a span: no anchor at all, no marker after the introducer
DocNoAnchors == <<"<", IntroPT, "{", "}", ";", ">">>
DocMarkerFirst == <<Marker, "<", IntroMini, ">">>

Documents == {DocCurated, DocEmpty, DocTwoSpans, DocNoAnchors, DocMarkerFirst}

-----------------------------------------------------------------------------
(* main *)

FetchPcs == {"fetch_mini_raw", "fetch_pre_raw", "fetch_mini_t", "fetch_pre_t"}
ExitPcs  == {"fetch_failed", "raised", "no_match", "done"}

\* the locals of main before any of them is assigned
LocalsUnset ==
    /\ mini_raw = JNull /\ pre_raw = JNull /\ mini_t = JNull /\ pre_t = JNull
    /\ html = <<>> /\ existing_pt = JNull
    /\ mini_matches = JNull /\ pre_matches = JNull /\ mt = JNull /\ pt = JNull
    /\ new_data = <<>> /\ new_html = <<>>

Init ==
    /\ index_html \in Documents
    /\ pc = "fetch_mini_raw"
    /\ LocalsUnset
    /\ exit_status = -1
    /\ opened_w = FALSE
    /\ fetched = 0
    /\ html0 = index_html
    /\ pt0 = extract_existing_pt(index_html)
    /\ kept = TeamIds

\* the ids of the team records of a teams list that have one
ListedIds(tournament_data) ==
    LET teams == Get(tournament_data, K_teams, EmptyList)
    IN  {Item(teams.l[i], K_id).i : i \in {j \in 1..Len(teams.l) : HasKey(teams.l[j], K_id)}}

\* line 123
FetchMiniRaw ==
    /\ pc = "fetch_mini_raw"
    /\ \E data \in Fixtures : mini_raw' = data
    /\ pc' = "fetch_pre_raw"
    /\ fetched' = fetched + 1
    /\ UNCHANGED <<index_html, pre_raw, mini_t, pre_t, html, existing_pt, mini_matches,
                   pre_matches, mt, pt, new_data, new_html, exit_status, opened_w,
                   html0, pt0, kept>>

\* line 124
FetchPreRaw ==
    /\ pc = "fetch_pre_raw"
    /\ \E data \in Fixtures : pre_raw' = data
    /\ pc' = "fetch_mini_t"
    /\ fetched' = fetched + 1
    /\ UNCHANGED <<index_html, mini_raw, mini_t, pre_t, html, existing_pt, mini_matches,
                   pre_matches, mt, pt, new_data, new_html, exit_status, opened_w,
                   html0, pt0, kept>>

\* line 125
FetchMiniT ==
    /\ pc = "fetch_mini_t"
    /\ \E data \in Tournaments85 : mini_t' = data
    /\ pc' = "fetch_pre_t"
    /\ fetched' = fetched + 1
    /\ UNCHANGED <<index_html, mini_raw, pre_raw, pre_t, html, existing_pt, mini_matches,
                   pre_matches, mt, pt, new_data, new_html, exit_status, opened_w,
                   html0, pt0, kept>>

\* line 126
FetchPreT ==
    /\ pc = "fetch_pre_t"
    /\ \E data \in Tournaments87 :
          /\ pre_t' = data
          /\ kept' = IF Truthy(groups_of(data)) THEN {} ELSE kept \cap ListedIds(data)
    /\ pc' = "read"
    /\ fetched' = fetched + 1
    /\ UNCHANGED <<index_html, mini_raw, pre_raw, mini_t, html, existing_pt, mini_matches,
                   pre_matches, mt, pt, new_data, new_html, exit_status, opened_w,
                   html0, pt0>>

\* fetch with the error swallowed: the failed call and the calls after it yield
\* an empty document and main goes on
fetch_error_swallowed ==
    /\ pc \in FetchPcs
    /\ mini_raw' = IF pc = "fetch_mini_raw" THEN EmptyList ELSE mini_raw
    /\ pre_raw' = IF pc \in {"fetch_mini_raw", "fetch_pre_raw"} THEN EmptyList ELSE pre_raw
    /\ mini_t' = IF pc = "fetch_pre_t" THEN mini_t ELSE EmptyDict
    /\ pre_t' = EmptyDict
    /\ pc' = "read"
    /\ UNCHANGED <<index_html, html, existing_pt, mini_matches, pre_matches, mt, pt,
                   new_data, new_html, exit_status, opened_w, fetched, html0, pt0, kept>>

\* lines 127-132: fetch raised (URLError, or any other Exception such as a
\* JSON decode error), at whichever of the four calls was running
fetch_error ==
    /\ pc \in FetchPcs
    /\ pc' = "fetch_failed"
    /\ exit_status' = 1
    /\ UNCHANGED <<index_html, mini_raw, pre_raw, mini_t, pre_t, html, existing_pt,
                   mini_matches, pre_matches, mt, pt, new_data, new_html, opened_w,
                   fetched, html0, pt0, kept>>

\* an exception nothing catches ends the process with status 1
Uncaught ==
    /\ pc' = "raised"
    /\ exit_status' = 1

\* lines 134-152: read the document, extract, transform, resolve, assemble
Prepare ==
    /\ pc = "read"
    /\ html' = index_html
    /\ existing_pt' = extract_existing_pt(index_html)
    /\ mini_matches' = transform_matches(mini_raw)
    /\ IF IsRaise(mini_matches')
       THEN Uncaught /\ UNCHANGED <<pre_matches, mt, pt, new_data>>
       ELSE /\ pre_matches' = transform_matches(pre_raw)
            /\ IF IsRaise(pre_matches')
               THEN Uncaught /\ UNCHANGED <<mt, pt, new_data>>
               ELSE /\ mt' = build_mt(mini_t)
                    /\ IF IsRaise(mt')
                       THEN Uncaught /\ UNCHANGED <<pt, new_data>>
                       ELSE /\ pt' = build_pt(pre_t, existing_pt')
                            /\ IF IsRaise(pt')
                               THEN Uncaught /\ UNCHANGED new_data
                               ELSE /\ new_data' = assemble(mini_matches', pre_matches',
                                                            mt', pt')
                                    /\ pc' = "substitute"
                                    /\ UNCHANGED exit_status
    /\ UNCHANGED <<index_html, mini_raw, pre_raw, mini_t, pre_t, new_html, opened_w,
                   fetched, html0, pt0, kept>>

\* the check of line 162 left out
no_match_unchecked(new_html_, html_) == FALSE

\* line 162
no_match(new_html_, html_) == new_html_ = html_

\* lines 155-164: re.sub, then the check of its result
Substitute ==
    /\ pc = "substitute"
    /\ LET r == re_sub(new_data \o <<LF>>, html)
       IN  IF ~r.ok
           THEN Uncaught /\ UNCHANGED new_html
           ELSE /\ new_html' = r.text
                /\ IF no_match(r.text, html)
                   THEN pc' = "no_match" /\ exit_status' = 1
                   ELSE pc' = "write" /\ UNCHANGED exit_status
    /\ UNCHANGED <<index_html, mini_raw, pre_raw, mini_t, pre_t, html, existing_pt,
                   mini_matches, pre_matches, mt, pt, new_data, opened_w, fetched,
                   html0, pt0, kept>>

\* lines 166-173: write the document, report, return
Write ==
    /\ pc = "write"
    /\ opened_w' = TRUE
    /\ index_html' = new_html
    /\ pc' = "done"
    /\ exit_status' = 0
    /\ UNCHANGED <<mini_raw, pre_raw, mini_t, pre_t, html, existing_pt, mini_matches,
                   pre_matches, mt, pt, new_data, new_html, fetched, html0, pt0, kept>>

\* the operator runs the script again
NextRun ==
    /\ pc \in ExitPcs
    /\ pc' = "fetch_mini_raw"
    /\ mini_raw' = JNull /\ pre_raw' = JNull /\ mini_t' = JNull /\ pre_t' = JNull
    /\ html' = <<>> /\ existing_pt' = JNull
    /\ mini_matches' = JNull /\ pre_matches' = JNull /\ mt' = JNull /\ pt' = JNull
    /\ new_data' = <<>> /\ new_html' = <<>>
    /\ exit_status' = -1
    /\ opened_w' = FALSE
    /\ fetched' = 0
    /\ html0' = index_html
    /\ UNCHANGED <<index_html, pt0, kept>>

Next ==
    \/ FetchMiniRaw
    \/ FetchPreRaw
    \/ FetchMiniT
    \/ FetchPreT
    \/ fetch_error
    \/ Prepare
    \/ Substitute
    \/ Write
    \/ NextRun

Spec == Init /\ [][Next]_vars

-----------------------------------------------------------------------------
(* transform_matches on its own: every combination of present and absent    *)
(* optional fields                                                         *)

MaxMatches == 1

\* all sequences over S of length at most n
SeqsUpTo(S, n) == UNION {[1..k -> S] : k \in 0..n}

Opt(k, values) == {<<>>} \cup {<<Entry(k, v)>> : v \in values}

NullDateSample == <<"0", "0", "0", "1", "-", "0", "1", "-", "0", "1", "T",
                    "0", "0", ":", "0", "0", ":", "0", "0">>

MatchInputs ==
    {JObj(h \o v \o d \o st \o f) :
        h  \in Opt(K_idHomeTeam, {JInt(0), JInt(1)}),
        v  \in Opt(K_idVisitorTeam, {JInt(0), JInt(2)}),
        d  \in Opt(K_startTime, {JStr(NullDateSample), JStr(StartSample)}),
        st \in Opt(K_status, {JInt(1)}),
        f  \in Opt(K_field, {EmptyDict, JObj(<<Entry(K_name, JStr(<<"N">>))>>)})}

JornadaInputs ==
    {JObj(n \o g \o m) :
        n \in Opt(K_name, {JStr(<<"J", "1">>)}),
        g \in Opt(K_idGroup, {JInt(3)}),
        m \in Opt(K_matches, {JNull} \cup {JList(l) : l \in SeqsUpTo(MatchInputs, MaxMatches)})}

\* everything main holds besides the arguments of the function under study
Idle ==
    /\ index_html = <<>> /\ html = <<>> /\ new_data = <<>> /\ new_html = <<>>
    /\ exit_status = -1 /\ opened_w = FALSE /\ fetched = 0 /\ html0 = <<>>
    /\ pt0 = EmptyDict /\ kept = {}
    /\ pre_raw = JNull /\ mini_t = JNull /\ mini_matches = JNull /\ pre_matches = JNull
    /\ mt = JNull /\ pt = JNull

InitTransform ==
    /\ pc = "transform_matches"
    /\ mini_raw \in {JList(<<j>>) : j \in JornadaInputs}
    /\ pre_t = JNull /\ existing_pt = JNull
    /\ Idle

\* line 139
TransformCall ==
    /\ pc = "transform_matches"
    /\ mini_matches' = transform_matches(mini_raw)
    /\ pc' = "transformed"
    /\ UNCHANGED <<index_html, mini_raw, pre_raw, mini_t, pre_t, html, existing_pt,
                   pre_matches, mt, pt, new_data, new_html, exit_status, opened_w,
                   fetched, html0, pt0, kept>>

NextTransform == TransformCall

SpecTransform == InitTransform /\ [][NextTransform]_vars

-----------------------------------------------------------------------------
(* build_pt on its own *)

MaxTeams == 2

TeamRecords == {Team(5, NamePlain), Team(6, <<"Y">>), TeamNoName(7)}

GroupNames == {<<"G", "r", "u", "p", "o", " ", "B">>, <<"g", "r", "u", "p", "o", " ", "c">>,
               <<"Z">>, <<>>, <<" ", "d", " ">>}

GroupTeams == {<<>>, <<Team(5, NamePlain)>>, <<TeamNoName(5)>>}

\* the values of the "groups" field: absent, empty, one group, two groups
GroupsInputs ==
    {<<>>, <<Entry(K_groups, EmptyList)>>}
    \cup {<<Entry(K_groups, JList(<<Group(n, l)>>))>> : n \in GroupNames, l \in GroupTeams}
    \cup {<<Entry(K_groups, JList(<<Group(<<"B">>, <<Team(5, NamePlain)>>),
                                     Group(<<"C">>, <<Team(6, <<"Y">>)>>)>>))>>}

RoundGroupsInputs ==
    {<<>>, <<Entry(K_roundGroups, JList(<<Group(<<"D">>, <<Team(6, <<"Y">>)>>)>>))>>}

GroupsRoundsInputs ==
    {<<>>, <<Entry(K_groupsRounds, JList(<<Group(<<"A">>, <<Team(7, <<"W">>)>>)>>))>>}

TeamsInputs == {<<>>} \cup {<<Teams(l)>> : l \in SeqsUpTo(TeamRecords, MaxTeams)}

TournamentInputs ==
    {JObj(g \o rg \o gr \o t) :
        g \in GroupsInputs, rg \in RoundGroupsInputs, gr \in GroupsRoundsInputs,
        t \in TeamsInputs}

\* previously known mappings: none, empty, keyed by str or by int, a letter
\* outside the four, an entry without "g", an entry that is no dict
ExistingInputs ==
    {JNull, EmptyDict,
     JObj(<<Entry(JStr(<<"5">>), PtEntry(JStr(NamePlain), JStr(<<"B">>)))>>),
     JObj(<<Entry(JInt(5), PtEntry(JStr(NamePlain), JStr(<<"C">>))),
            Entry(JStr(<<"6">>), PtEntry(JStr(<<"Y">>), JStr(<<"D">>)))>>),
     JObj(<<Entry(JStr(<<"5">>), PtEntry(JStr(NamePlain), JStr(<<"Z">>)))>>),
     JObj(<<Entry(JStr(<<"5">>), JObj(<<Entry(K_n, JStr(NamePlain))>>)),
            Entry(JStr(<<"6">>), JStr(<<"B">>))>>)}

InitBuildPt ==
    /\ pc = "build_pt"
    /\ pre_t \in TournamentInputs
    /\ existing_pt \in ExistingInputs
    /\ mini_raw = JNull
    /\ Idle

\* line 142
BuildPtCall ==
    /\ pc = "build_pt"
    /\ pt' = build_pt(pre_t, existing_pt)
    /\ pc' = "built"
    /\ UNCHANGED <<index_html, mini_raw, pre_raw, mini_t, pre_t, html, existing_pt,
                   mini_matches, pre_matches, mt, new_data, new_html, exit_status,
                   opened_w, fetched, html0, pt0, kept>>

NextBuildPt == BuildPtCall

SpecBuildPt == InitBuildPt /\ [][NextBuildPt]_vars

-----------------------------------------------------------------------------
(* What the claims speak of *)

\* the first introducer of s and the first marker after it, 0 when there is none
SpanStart(s) == Find(s, IntroMini, 1)
SpanEnd(s)   == IF SpanStart(s) = 0 THEN 0 ELSE Find(s, Marker, SpanStart(s) + 1)

\* text s holds an introducer with a marker somewhere after it: the first
\* introducer has one if any has
HasSpan(s) == SpanEnd(s) # 0

\* the replaceable region of s: from the first introducer up to the marker
Region(s) == IF HasSpan(s) THEN SubSeq(s, SpanStart(s), SpanEnd(s) - 1) ELSE <<>>

\* the last n tokens of s
Last(s, n) == SubSeq(s, Len(s) - n + 1, Len(s))

Malformed(team) == ~HasKey(team, K_id) \/ ~HasKey(team, K_name)

AnyMalformed(l) == \E i \in 1..Len(l) : Malformed(l[i])

AnyMalformed_set(records) == \E r \in records : Malformed(r)

TeamsOf(obj) == Get(obj, K_teams, EmptyList).l

GroupFields == {K_groups, K_roundGroups, K_groupsRounds}

\* the groups listed under one of the three field names
GroupsUnder(t, key) == Get(t, key, EmptyList).l

\* the first of the three fields that holds a non-empty groups structure
FoundGroups(t) ==
    IF GroupsUnder(t, K_groups) # <<>> THEN GroupsUnder(t, K_groups)
    ELSE IF GroupsUnder(t, K_roundGroups) # <<>> THEN GroupsUnder(t, K_roundGroups)
    ELSE GroupsUnder(t, K_groupsRounds)

\* the team records listed under the groups gs
RecordsUnder(gs) == UNION {{TeamsOf(gs[i])[j] : j \in 1..Len(TeamsOf(gs[i]))} : i \in 1..Len(gs)}

IdsOf(records) == {Item(r, K_id) : r \in {q \in records : HasKey(q, K_id)}}

FlatRecords(t) == {TeamsOf(t)[j] : j \in 1..Len(TeamsOf(t))}

Keys(d) == {d.kv[i].k : i \in 1..Len(d.kv)}

\* the run got all four responses
AllFetched == fetched = 4

\* the run ended without touching the document
Aborted == exit_status = 1 /\ ~opened_w /\ index_html = html0

-----------------------------------------------------------------------------
(* C1 *)

\* C1: when the replaceable region of the document already holds exactly the
\* block the fetched data serializes to, the run leaves the region identical
\* and exits with status 0.
C1_Idempotent ==
    (pc \in ExitPcs /\ new_data # <<>> /\ HasSpan(html)
       /\ Region(html) = new_data \o <<LF>>)
    => (exit_status = 0 /\ Region(index_html) = Region(html))

-----------------------------------------------------------------------------
(* C2 *)

\* C2: a failed fetch ends the run with a nonzero status and the document
\* neither opened for writing nor modified; the document is written only
\* after all four fetches have returned.
C2_FetchFailureFatal ==
    /\ pc = "fetch_failed" => (exit_status = 1 /\ ~opened_w /\ index_html = html0)
    /\ (opened_w \/ index_html # html0 \/ pc = "write") => fetched = 4
    /\ exit_status = 0 => fetched = 4

\* the fourth fetch failed after three had returned
C2_Witness ==
    pc = "fetch_failed" /\ fetched = 3 /\ exit_status = 1 /\ HasSpan(index_html)

-----------------------------------------------------------------------------
(* C3 *)

\* C3: if the document holds no introducer followed later by the marker, the
\* run exits with status 1 and the document is left as it was, unwritten.
C3_AnchorMissing ==
    ~HasSpan(html0) =>
        /\ ~opened_w
        /\ index_html = html0
        /\ pc # "write"
        /\ pc \in ExitPcs => exit_status = 1

\* re.sub ran on a document that has the introducer but no marker after it
C3_Witness ==
    /\ pc = "no_match"
    /\ html = DocMarkerFirst
    /\ new_html = html
    /\ exit_status = 1
    /\ index_html = DocMarkerFirst

-----------------------------------------------------------------------------
(* C4 *)

\* C4: every entry of the mapping build_pt returns has its group "g" among
\* "A", "B", "C", "D", on the groups path and on the fallback path.
C4_GroupLetter ==
    (pc = "built" /\ ~IsRaise(pt)) =>
        \A i \in 1..Len(pt.kv) :
            Item(pt.kv[i].v, K_g) \in {JStr(<<l>>) : l \in GroupLetters}

-----------------------------------------------------------------------------
(* C5 *)

\* the group letter team tid had in the PT constant before the first run
OrigGroup(tid) ==
    IF HasKey(pt0, JStr(IntStr(tid)))
    THEN Item(Item(pt0, JStr(IntStr(tid))), K_g)
    ELSE LetterA

\* C5: over runs whose tournament-87 responses carry no groups structure, a
\* team listed in every response keeps, in the PT written by each run, the
\* group letter it had before the first run ("A" if it had none).
C5_GroupsPersist ==
    pc = "done" =>
        \A tid \in kept :
            /\ HasKey(pt, JInt(tid))
            /\ Item(Item(pt, JInt(tid)), K_g) = OrigGroup(tid)

-----------------------------------------------------------------------------
(* C6 *)

\* a team record lacking "id" or "name" under any of the three groups fields
AnyGroupMalformed(t) ==
    \E key \in GroupFields : AnyMalformed_set(RecordsUnder(GroupsUnder(t, key)))

\* C6: a team record lacking "id" or "name" in tournament 85's teams list, in
\* tournament 87's teams list or under any of its groups aborts the run: exit
\* status nonzero, document not written.
C6_MalformedFatal ==
    (pc \in ExitPcs /\ AllFetched
       /\ (\/ AnyMalformed(TeamsOf(mini_t))
           \/ AnyMalformed(TeamsOf(pre_t))
           \/ AnyGroupMalformed(pre_t)))
    => Aborted

\* the records of tournament 87 that build_pt reads: those under the groups
\* structure it found, and the flat teams list when those groups list no team
ReadRecords87(t) ==
    IF RecordsUnder(FoundGroups(t)) # {} THEN RecordsUnder(FoundGroups(t))
    ELSE FlatRecords(t)

\* C6 amended: a team record lacking "id" or "name" in tournament 85's teams
\* list, under a group of the groups structure build_pt found, or - when that
\* structure lists no team at all - in tournament 87's teams list aborts the
\* run: exit status 1, document not written.
C6_MalformedReadFatal ==
    (pc \in ExitPcs /\ AllFetched
       /\ (\/ AnyMalformed(TeamsOf(mini_t))
           \/ \E r \in ReadRecords87(pre_t) : Malformed(r)))
    => Aborted

\* a run that got a tournament 85 with a nameless team record and stopped in
\* build_mt
C6_Witness ==
    /\ pc = "raised"
    /\ AllFetched
    /\ AnyMalformed(TeamsOf(mini_t))
    /\ ~IsRaise(pre_matches)
    /\ IsRaise(mt)
    /\ Aborted

-----------------------------------------------------------------------------
(* C7 *)

\* the defaults of one match
MatchDefaults(m, r) ==
    /\ (~HasKey(m, K_idHomeTeam) \/ ~Truthy(Get(m, K_idHomeTeam, JNull)))
           => Item(r, K_h) = JInt(-1)
    /\ (~HasKey(m, K_idVisitorTeam) \/ ~Truthy(Get(m, K_idVisitorTeam, JNull)))
           => Item(r, K_v) = JInt(-1)
    /\ ~HasKey(m, K_startTime) => Item(r, K_d) = EmptyStr
    /\ ~HasKey(m, K_status) => Item(r, K_s) = JInt(5)
    /\ (~HasKey(m, K_field) \/ ~HasKey(Item(m, K_field), K_name))
           => Item(r, K_f) = EmptyStr

\* the defaults of one round
RoundDefaults(j, o) ==
    /\ ~HasKey(j, K_name) => Item(o, K_n) = EmptyStr
    /\ ~HasKey(j, K_idGroup) => Item(o, K_g) = JInt(0)
    /\ ~HasKey(j, K_matches) => Item(o, K_m) = EmptyList
    /\ HasKey(j, K_matches) =>
          /\ Len(Item(o, K_m).l) = Len(Item(j, K_matches).l)
          /\ \A k \in 1..Len(Item(j, K_matches).l) :
                MatchDefaults(Item(j, K_matches).l[k], Item(o, K_m).l[k])

\* C7: on a round list whose optional fields are absent in any combination
\* (and whose "matches", where present, is a list) transform_matches does not
\* raise and gives each absent field its default: name "", group id 0, home
\* and visitor id -1 (also for a falsy id), start "", status 5, venue "".
C7_Defaults ==
    (pc = "transformed"
       /\ \A i \in 1..Len(mini_raw.l) :
             HasKey(mini_raw.l[i], K_matches) => Item(mini_raw.l[i], K_matches).t = "list")
    => /\ ~IsRaise(mini_matches)
       /\ Len(mini_matches.l) = Len(mini_raw.l)
       /\ \A i \in 1..Len(mini_raw.l) : RoundDefaults(mini_raw.l[i], mini_matches.l[i])

\* a round that has only its matches, one match with no field at all
C7_Witness ==
    /\ pc = "transformed"
    /\ mini_raw = JList(<<JObj(<<Entry(K_matches, JList(<<EmptyDict>>))>>)>>)
    /\ mini_matches =
          JList(<<JObj(<<Entry(K_n, EmptyStr), Entry(K_g, JInt(0)),
                         Entry(K_m, JList(<<JObj(<<Entry(K_h, JInt(-1)), Entry(K_v, JInt(-1)),
                                                   Entry(K_d, EmptyStr), Entry(K_s, JInt(5)),
                                                   Entry(K_f, EmptyStr)>>)>>))>>)>>)

-----------------------------------------------------------------------------
(* C8 *)

\* C8: whenever a non-empty groups structure is found under one of the three
\* field names, the flat teams list is not used: the mapping holds exactly
\* the teams listed under the groups.
C8_FallbackOnlyWithoutGroups ==
    (pc = "built" /\ ~IsRaise(pt) /\ FoundGroups(pre_t) # <<>>)
    => Keys(pt) = IdsOf(RecordsUnder(FoundGroups(pre_t)))

\* C8 amended: the flat teams list is used exactly when the groups step left
\* the mapping empty (no groups structure, or one whose groups list no team);
\* whenever the groups structure lists a team, the mapping holds exactly the
\* teams listed under its groups.
C8_FallbackWhenNoTeamGrouped ==
    (pc = "built" /\ ~IsRaise(pt)) =>
        IF RecordsUnder(FoundGroups(pre_t)) # {}
        THEN Keys(pt) = IdsOf(RecordsUnder(FoundGroups(pre_t)))
        ELSE Keys(pt) = IdsOf(FlatRecords(pre_t))

\* a groups structure whose only group lists no team: the flat list is used
C8_Witness ==
    /\ pc = "built"
    /\ FoundGroups(pre_t) # <<>>
    /\ RecordsUnder(FoundGroups(pre_t)) = {}
    /\ ~IsRaise(pt)
    /\ Keys(pt) = {JInt(5), JInt(6)}

-----------------------------------------------------------------------------
(* C9 *)

\* C9: a successful run replaces one span only, from the first introducer up
\* to the first marker after it: the text before that introducer and the text
\* from that marker to the end are the same in the written document.
C9_OneSpanReplaced ==
    pc = "done" =>
        LET before == SubSeq(html, 1, SpanStart(html) - 1)
            after  == SubSeq(html, SpanEnd(html), Len(html))
        IN  /\ Len(index_html) >= Len(before) + Len(after)
            /\ SubSeq(index_html, 1, Len(before)) = before
            /\ Last(index_html, Len(after)) = after

-----------------------------------------------------------------------------
(* C10 *)

\* json.loads(json.dumps(v)) succeeds and serializes to the same text again
RoundTrips(v) == Loads(Dumps(v)).ok /\ Dumps(Loads(Dumps(v)).v) = Dumps(v)

\* C10: after a successful run the span between the introducer and the marker
\* is character for character the assembled block, whose four values parse
\* as JSON back into the structures that were computed.
C10_RoundTrip ==
    pc = "done" =>
        /\ Region(index_html) = new_data \o <<LF>>
        /\ RoundTrips(mini_matches) /\ RoundTrips(pre_matches)
        /\ RoundTrips(mt) /\ RoundTrips(pt)

====
